---- MODULE Spec2Model ----
(***************************************************************************)
(* A model of graph.py: the Node class, the adjacency-set graph and the    *)
(* adjacency-matrix graph, the calls a client can make on them, and the    *)
(* demonstration entry point main().                                       *)
(*                                                                         *)
(* Every method is a pure operator over the object's storage that returns  *)
(* a record [err, store/ret]; err names the raise statement that ended the *)
(* call ("none" when the call returned).  All three kinds of failure are   *)
(* ValueError in the source; they are told apart by the statement that     *)
(* raises them.  The actions apply the operators to the current object and *)
(* record the call and its outcome.                                        *)
(***************************************************************************)
EXTENDS Integers, Sequences, FiniteSets

VARIABLES kind, nbvertices, directed, vertex_list, matrix, pc, ncalls, call, err, ret

vars == <<kind, nbvertices, directed, vertex_list, matrix, pc, ncalls, call, err, ret>>

(* Bounds of the exploration. *)
MaxN == 3
MaxWeight == 2
MaxCalls == 2

(* The graph that main() builds. *)
MainN == 4
MainEdges == << <<0, 1, 43>>, <<0, 2, 55>>, <<2, 3, 10>> >>

(* Arguments the client passes: every index of [0, N) and one beyond each  *)
(* end of it; a weight below 1, the weight 1 and a weight above 1.         *)
VertexInputs == -1 .. nbvertices
WeightInputs == {0, 1, MaxWeight}
Vertices == 0 .. (nbvertices - 1)

Range(s) == {s[k] : k \in 1 .. Len(s)}

(***************************************************************************)
(* class Node                                                              *)
(***************************************************************************)

(* Node(i).adjacency_set = set() for i in range(nbvertices) *)
NewVertexList(n) == [i \in 0 .. (n - 1) |-> {}]

(* Variant of Node.add_edge that inserts before it compares with vertexid. *)
Node_add_edge_unchecked(vl, self, vertex) ==
    [err |-> IF self = vertex THEN "SelfLoopError" ELSE "none",
     store |-> [vl EXCEPT ![self] = @ \cup {vertex}]]

(* Variant of Node.add_edge without the comparison with vertexid. *)
Node_add_edge_noguard(vl, self, vertex) ==
    [err |-> "none", store |-> [vl EXCEPT ![self] = @ \cup {vertex}]]

(* Node.add_edge: vl[self] is the adjacency set of the node whose vertexid *)
(* is self.                                                                *)
Node_add_edge(vl, self, vertex) ==
    IF self = vertex
    THEN [err |-> "SelfLoopError", store |-> vl]
    ELSE [err |-> "none", store |-> [vl EXCEPT ![self] = @ \cup {vertex}]]

(* Variant of sorted() that yields descending order. *)
RECURSIVE sorted_desc(_)
sorted_desc(S) ==
    IF S = {} THEN <<>>
    ELSE LET m == CHOOSE x \in S : \A y \in S : y <= x
         IN <<m>> \o sorted_desc(S \ {m})

(* sorted(): the elements of a set of integers in ascending order. *)
RECURSIVE sorted(_)
sorted(S) ==
    IF S = {} THEN <<>>
    ELSE LET m == CHOOSE x \in S : \A y \in S : x <= y
         IN <<m>> \o sorted(S \ {m})

Node_get_adjacent_vertices(vl, self) == sorted(vl[self])

(***************************************************************************)
(* class AdjacencySetGraph                                                 *)
(***************************************************************************)

(* Variant of add_edge that rejects only the weights its message names (> 1). *)
AdjacencySetGraph_add_edge_weight_gt(vl, v1, v2, weight) ==
    IF v1 >= nbvertices \/ v2 >= nbvertices \/ v1 < 0 \/ v2 < 0
    THEN [err |-> "OutOfBounds", store |-> vl]
    ELSE IF weight > 1
    THEN [err |-> "WeightNotSupported", store |-> vl]
    ELSE LET r1 == Node_add_edge(vl, v1, v2)
         IN IF r1.err /= "none" THEN r1
            ELSE IF directed = FALSE THEN Node_add_edge(r1.store, v2, v1)
            ELSE r1

(* Variant of add_edge that never stores the reverse edge. *)
AdjacencySetGraph_add_edge_one_way(vl, v1, v2, weight) ==
    IF v1 >= nbvertices \/ v2 >= nbvertices \/ v1 < 0 \/ v2 < 0
    THEN [err |-> "OutOfBounds", store |-> vl]
    ELSE IF weight /= 1
    THEN [err |-> "WeightNotSupported", store |-> vl]
    ELSE Node_add_edge(vl, v1, v2)

AdjacencySetGraph_add_edge(vl, v1, v2, weight) ==
    IF v1 >= nbvertices \/ v2 >= nbvertices \/ v1 < 0 \/ v2 < 0
    THEN [err |-> "OutOfBounds", store |-> vl]
    ELSE IF weight /= 1
    THEN [err |-> "WeightNotSupported", store |-> vl]
    ELSE LET r1 == Node_add_edge(vl, v1, v2)
         IN IF r1.err /= "none" THEN r1
            ELSE IF directed = FALSE THEN Node_add_edge(r1.store, v2, v1)
            ELSE r1

AdjacencySetGraph_get_adjacent_vertices(vl, v) ==
    IF v < 0 \/ v >= nbvertices
    THEN [err |-> "OutOfBounds", ret |-> "None"]
    ELSE [err |-> "none", ret |-> Node_get_adjacent_vertices(vl, v)]

(* for i in range(self.nbvertices): if v in self.get_adjacent_vertices(i) *)
RECURSIVE AdjacencySetGraph_indegree_loop(_, _, _)
AdjacencySetGraph_indegree_loop(vl, v, i) ==
    IF i >= nbvertices THEN 0
    ELSE (IF v \in Range(AdjacencySetGraph_get_adjacent_vertices(vl, i).ret) THEN 1 ELSE 0)
         + AdjacencySetGraph_indegree_loop(vl, v, i + 1)

AdjacencySetGraph_get_indegree(vl, v) ==
    IF v < 0 \/ v >= nbvertices
    THEN [err |-> "OutOfBounds", ret |-> "None"]
    ELSE [err |-> "none", ret |-> AdjacencySetGraph_indegree_loop(vl, v, 0)]

AdjacencySetGraph_get_edge_weight(vl, v1, v2) == [err |-> "none", ret |-> 1]

(* print(i, v, sep='-->') *)
Line(i, v) == <<i, "-->", v>>

RECURSIVE LinesOf(_, _, _)
LinesOf(i, adj, k) ==
    IF k > Len(adj) THEN <<>> ELSE <<Line(i, adj[k])>> \o LinesOf(i, adj, k + 1)

RECURSIVE AdjacencySetGraph_display_loop(_, _)
AdjacencySetGraph_display_loop(vl, i) ==
    IF i >= nbvertices THEN <<>>
    ELSE LinesOf(i, AdjacencySetGraph_get_adjacent_vertices(vl, i).ret, 1)
         \o AdjacencySetGraph_display_loop(vl, i + 1)

AdjacencySetGraph_display(vl) ==
    [err |-> "none", ret |-> AdjacencySetGraph_display_loop(vl, 0)]

(***************************************************************************)
(* class AdjacencyMatrixGraph                                              *)
(***************************************************************************)

(* np.zeros((nbvertices, nbvertices)) *)
NewMatrix(n) == [i \in 0 .. (n - 1) |-> [j \in 0 .. (n - 1) |-> 0]]

(* A cell holds a float64: an integer weight is stored as the nearest      *)
(* double, which is the integer itself for every |weight| <= 2^53 and so   *)
(* for every integer of the model.                                         *)
Float64(weight) == weight

(* Variant of add_edge that adds the weight to the cell (+=). *)
AdjacencyMatrixGraph_add_edge_accumulate(m, v1, v2, weight) ==
    IF v1 >= nbvertices \/ v2 >= nbvertices \/ v1 < 0 \/ v2 < 0
    THEN [err |-> "OutOfBounds", store |-> m]
    ELSE IF weight < 1
    THEN [err |-> "WeightNotSupported", store |-> m]
    ELSE LET m1 == [m EXCEPT ![v1][v2] = @ + Float64(weight)]
         IN [err |-> "none",
             store |-> IF directed = FALSE
                       THEN [m1 EXCEPT ![v2][v1] = @ + Float64(weight)]
                       ELSE m1]

(* Variant of add_edge that leaves a cell that already holds an edge. *)
AdjacencyMatrixGraph_add_edge_keep_first(m, v1, v2, weight) ==
    IF v1 >= nbvertices \/ v2 >= nbvertices \/ v1 < 0 \/ v2 < 0
    THEN [err |-> "OutOfBounds", store |-> m]
    ELSE IF weight < 1
    THEN [err |-> "WeightNotSupported", store |-> m]
    ELSE LET m1 == [m EXCEPT ![v1][v2] = IF @ > 0 THEN @ ELSE Float64(weight)]
         IN [err |-> "none",
             store |-> IF directed = FALSE
                       THEN [m1 EXCEPT ![v2][v1] = IF @ > 0 THEN @ ELSE Float64(weight)]
                       ELSE m1]

(* Variant of add_edge whose bounds check tests only for negative indices. *)
AdjacencyMatrixGraph_add_edge_no_upper_bound(m, v1, v2, weight) ==
    IF v1 < 0 \/ v2 < 0
    THEN [err |-> "OutOfBounds", store |-> m]
    ELSE IF weight < 1
    THEN [err |-> "WeightNotSupported", store |-> m]
    ELSE LET m1 == [m EXCEPT ![v1][v2] = Float64(weight)]
         IN [err |-> "none",
             store |-> IF directed = FALSE
                       THEN [m1 EXCEPT ![v2][v1] = Float64(weight)]
                       ELSE m1]

(* Variant of add_edge that stores the reverse edge in a directed graph too. *)
AdjacencyMatrixGraph_add_edge_always_symmetric(m, v1, v2, weight) ==
    IF v1 >= nbvertices \/ v2 >= nbvertices \/ v1 < 0 \/ v2 < 0
    THEN [err |-> "OutOfBounds", store |-> m]
    ELSE IF weight < 1
    THEN [err |-> "WeightNotSupported", store |-> m]
    ELSE [err |-> "none",
          store |-> [[m EXCEPT ![v1][v2] = Float64(weight)]
                        EXCEPT ![v2][v1] = Float64(weight)]]

AdjacencyMatrixGraph_add_edge(m, v1, v2, weight) ==
    IF v1 >= nbvertices \/ v2 >= nbvertices \/ v1 < 0 \/ v2 < 0
    THEN [err |-> "OutOfBounds", store |-> m]
    ELSE IF weight < 1
    THEN [err |-> "WeightNotSupported", store |-> m]
    ELSE LET m1 == [m EXCEPT ![v1][v2] = Float64(weight)]
         IN [err |-> "none",
             store |-> IF directed = FALSE
                       THEN [m1 EXCEPT ![v2][v1] = Float64(weight)]
                       ELSE m1]

(* for i in range(self.nbvertices): if self.matrix[v][i] > 0: append(i) *)
RECURSIVE AdjacencyMatrixGraph_adjacent_loop(_, _, _)
AdjacencyMatrixGraph_adjacent_loop(m, v, i) ==
    IF i >= nbvertices THEN <<>>
    ELSE (IF m[v][i] > 0 THEN <<i>> ELSE <<>>)
         \o AdjacencyMatrixGraph_adjacent_loop(m, v, i + 1)

AdjacencyMatrixGraph_get_adjacent_vertices(m, v) ==
    IF v < 0 \/ v >= nbvertices
    THEN [err |-> "OutOfBounds", ret |-> "None"]
    ELSE [err |-> "none", ret |-> AdjacencyMatrixGraph_adjacent_loop(m, v, 0)]

(* Variant of the get_indegree loop that scans row v instead of column v. *)
RECURSIVE AdjacencyMatrixGraph_indegree_loop_row(_, _, _)
AdjacencyMatrixGraph_indegree_loop_row(m, v, i) ==
    IF i >= nbvertices THEN 0
    ELSE (IF m[v][i] > 0 THEN 1 ELSE 0)
         + AdjacencyMatrixGraph_indegree_loop_row(m, v, i + 1)

(* for i in range(self.nbvertices): if self.matrix[i][v] > 0 *)
RECURSIVE AdjacencyMatrixGraph_indegree_loop(_, _, _)
AdjacencyMatrixGraph_indegree_loop(m, v, i) ==
    IF i >= nbvertices THEN 0
    ELSE (IF m[i][v] > 0 THEN 1 ELSE 0)
         + AdjacencyMatrixGraph_indegree_loop(m, v, i + 1)

AdjacencyMatrixGraph_get_indegree(m, v) ==
    IF v < 0 \/ v >= nbvertices
    THEN [err |-> "OutOfBounds", ret |-> "None"]
    ELSE [err |-> "none", ret |-> AdjacencyMatrixGraph_indegree_loop(m, v, 0)]

(* return self.matrix[v1][v2]: the method has no bounds check of its own; *)
(* the client of this model reads cells of the matrix only.               *)
AdjacencyMatrixGraph_get_edge_weight(m, v1, v2) ==
    [err |-> "none", ret |-> m[v1][v2]]

RECURSIVE AdjacencyMatrixGraph_display_loop(_, _)
AdjacencyMatrixGraph_display_loop(m, i) ==
    IF i >= nbvertices THEN <<>>
    ELSE LinesOf(i, AdjacencyMatrixGraph_get_adjacent_vertices(m, i).ret, 1)
         \o AdjacencyMatrixGraph_display_loop(m, i + 1)

AdjacencyMatrixGraph_display(m) ==
    [err |-> "none", ret |-> AdjacencyMatrixGraph_display_loop(m, 0)]

(***************************************************************************)
(* The Graph interface: a call goes to the method of the object's class.   *)
(***************************************************************************)

store == IF kind = "set" THEN vertex_list ELSE matrix

add_edge(v1, v2, weight) ==
    IF kind = "set" THEN AdjacencySetGraph_add_edge(vertex_list, v1, v2, weight)
    ELSE AdjacencyMatrixGraph_add_edge(matrix, v1, v2, weight)

get_adjacent_vertices(v) ==
    IF kind = "set" THEN AdjacencySetGraph_get_adjacent_vertices(vertex_list, v)
    ELSE AdjacencyMatrixGraph_get_adjacent_vertices(matrix, v)

get_indegree(v) ==
    IF kind = "set" THEN AdjacencySetGraph_get_indegree(vertex_list, v)
    ELSE AdjacencyMatrixGraph_get_indegree(matrix, v)

get_edge_weight(v1, v2) ==
    IF kind = "set" THEN AdjacencySetGraph_get_edge_weight(vertex_list, v1, v2)
    ELSE AdjacencyMatrixGraph_get_edge_weight(matrix, v1, v2)

display ==
    IF kind = "set" THEN AdjacencySetGraph_display(vertex_list)
    ELSE AdjacencyMatrixGraph_display(matrix)

(***************************************************************************)
(* One graph object and its client.                                        *)
(***************************************************************************)

NoCall == [op |-> "construct"]

(* Graph.__init__ and the constructor of the chosen class; pc = "main0"    *)
(* is the object main() constructs.                                        *)
Init ==
    /\ \/ /\ pc = "api"
          /\ kind \in {"set", "matrix"}
          /\ nbvertices \in 1 .. MaxN
          /\ directed \in BOOLEAN
       \/ /\ pc = "main0"
          /\ kind = "matrix"
          /\ nbvertices = MainN
          /\ directed = TRUE
    /\ vertex_list = IF kind = "set" THEN NewVertexList(nbvertices) ELSE <<>>
    /\ matrix = IF kind = "matrix" THEN NewMatrix(nbvertices) ELSE <<>>
    /\ ncalls = 0
    /\ call = NoCall
    /\ err = "none"
    /\ ret = "None"

(* The object after a call of add_edge whose outcome is r. *)
Stored(r) ==
    /\ vertex_list' = IF kind = "set" THEN r.store ELSE vertex_list
    /\ matrix' = IF kind = "matrix" THEN r.store ELSE matrix
    /\ err' = r.err
    /\ ret' = "None"
    /\ UNCHANGED <<kind, nbvertices, directed>>

Returned(r) ==
    /\ err' = r.err
    /\ ret' = r.ret
    /\ UNCHANGED <<kind, nbvertices, directed, vertex_list, matrix, ncalls>>

CallAddEdge(v1, v2, weight) ==
    /\ pc = "api"
    /\ ncalls < MaxCalls
    /\ ncalls' = ncalls + 1
    /\ call' = [op |-> "add_edge", v1 |-> v1, v2 |-> v2, weight |-> weight]
    /\ Stored(add_edge(v1, v2, weight))
    /\ UNCHANGED pc

CallGetAdjacentVertices(v) ==
    /\ pc = "api"
    /\ call' = [op |-> "get_adjacent_vertices", v |-> v]
    /\ Returned(get_adjacent_vertices(v))
    /\ UNCHANGED pc

CallGetIndegree(v) ==
    /\ pc = "api"
    /\ call' = [op |-> "get_indegree", v |-> v]
    /\ Returned(get_indegree(v))
    /\ UNCHANGED pc

CallGetEdgeWeight(v1, v2) ==
    /\ pc = "api"
    /\ call' = [op |-> "get_edge_weight", v1 |-> v1, v2 |-> v2]
    /\ Returned(get_edge_weight(v1, v2))
    /\ UNCHANGED pc

CallDisplay ==
    /\ pc = "api"
    /\ call' = [op |-> "display"]
    /\ Returned(display)
    /\ UNCHANGED pc

(* main(): the three add_edge calls, in order. *)
MainAddEdge ==
    /\ pc \in {"main0", "main1", "main2"}
    /\ LET k == CASE pc = "main0" -> 1 [] pc = "main1" -> 2 [] pc = "main2" -> 3
           e == MainEdges[k]
       IN /\ call' = [op |-> "add_edge", v1 |-> e[1], v2 |-> e[2], weight |-> e[3]]
          /\ Stored(add_edge(e[1], e[2], e[3]))
          /\ pc' = CASE k = 1 -> "main1" [] k = 2 -> "main2" [] k = 3 -> "main3"
    /\ UNCHANGED ncalls

(* main(): the three report loops; each prints one value per vertex or per *)
(* edge.                                                                   *)
MainReport ==
    /\ pc = "main3"
    /\ call' = [op |-> "report"]
    /\ err' = "none"
    /\ ret' = [adjacent |-> [i \in 0 .. (MainN - 1) |-> get_adjacent_vertices(i).ret],
               indegree |-> [i \in 0 .. (MainN - 1) |-> get_indegree(i).ret],
               weight |-> [i \in 0 .. (MainN - 1) |->
                             [k \in 1 .. Len(get_adjacent_vertices(i).ret) |->
                                get_edge_weight(i, get_adjacent_vertices(i).ret[k]).ret]]]
    /\ pc' = "main4"
    /\ UNCHANGED <<kind, nbvertices, directed, vertex_list, matrix, ncalls>>

(* main(): g.display() *)
MainDisplay ==
    /\ pc = "main4"
    /\ call' = [op |-> "display"]
    /\ Returned(display)
    /\ pc' = "done"

Next ==
    \/ \E v1 \in VertexInputs, v2 \in VertexInputs, weight \in WeightInputs :
          CallAddEdge(v1, v2, weight)
    \/ \E v \in VertexInputs : CallGetAdjacentVertices(v)
    \/ \E v \in VertexInputs : CallGetIndegree(v)
    \/ \E v1 \in Vertices, v2 \in Vertices : CallGetEdgeWeight(v1, v2)
    \/ CallDisplay
    \/ MainAddEdge
    \/ MainReport
    \/ MainDisplay

Spec == Init /\ [][Next]_vars

(***************************************************************************)
(* Two graph objects, one of each class, built with the same vertex count  *)
(* and directedness and given the same calls.  Here err and ret hold the   *)
(* outcome of the call on each object.                                     *)
(***************************************************************************)

InitPair ==
    /\ pc = "pair"
    /\ kind = "pair"
    /\ nbvertices \in 1 .. MaxN
    /\ directed \in BOOLEAN
    /\ vertex_list = NewVertexList(nbvertices)
    /\ matrix = NewMatrix(nbvertices)
    /\ ncalls = 0
    /\ call = NoCall
    /\ err = [set |-> "none", matrix |-> "none"]
    /\ ret = [set |-> "None", matrix |-> "None"]

PairReturned(rs, rm) ==
    /\ err' = [set |-> rs.err, matrix |-> rm.err]
    /\ ret' = [set |-> rs.ret, matrix |-> rm.ret]
    /\ UNCHANGED <<kind, nbvertices, directed, vertex_list, matrix, ncalls, pc>>

(* add_edge(v1, v2) with the default weight, on both objects. *)
PairAddEdge(v1, v2) ==
    /\ pc = "pair"
    /\ ncalls < MaxCalls
    /\ v1 /= v2
    /\ ncalls' = ncalls + 1
    /\ call' = [op |-> "add_edge", v1 |-> v1, v2 |-> v2, weight |-> 1]
    /\ LET rs == AdjacencySetGraph_add_edge(vertex_list, v1, v2, 1)
           rm == AdjacencyMatrixGraph_add_edge(matrix, v1, v2, 1)
       IN /\ vertex_list' = rs.store
          /\ matrix' = rm.store
          /\ err' = [set |-> rs.err, matrix |-> rm.err]
    /\ ret' = [set |-> "None", matrix |-> "None"]
    /\ UNCHANGED <<kind, nbvertices, directed, pc>>

PairGetAdjacentVertices(v) ==
    /\ pc = "pair"
    /\ call' = [op |-> "get_adjacent_vertices", v |-> v]
    /\ PairReturned(AdjacencySetGraph_get_adjacent_vertices(vertex_list, v),
                    AdjacencyMatrixGraph_get_adjacent_vertices(matrix, v))

PairGetIndegree(v) ==
    /\ pc = "pair"
    /\ call' = [op |-> "get_indegree", v |-> v]
    /\ PairReturned(AdjacencySetGraph_get_indegree(vertex_list, v),
                    AdjacencyMatrixGraph_get_indegree(matrix, v))

PairDisplay ==
    /\ pc = "pair"
    /\ call' = [op |-> "display"]
    /\ PairReturned(AdjacencySetGraph_display(vertex_list),
                    AdjacencyMatrixGraph_display(matrix))

NextPair ==
    \/ \E v1 \in VertexInputs, v2 \in VertexInputs : PairAddEdge(v1, v2)
    \/ \E v \in VertexInputs : PairGetAdjacentVertices(v)
    \/ \E v \in VertexInputs : PairGetIndegree(v)
    \/ PairDisplay

SpecPair == InitPair /\ [][NextPair]_vars

(***************************************************************************)
(* Properties.                                                             *)
(***************************************************************************)

InBounds(v) == v >= 0 /\ v < nbvertices

(* The directed edges an object stores. *)
StoredEdges ==
    IF kind = "set"
    THEN {e \in Vertices \X Vertices : e[2] \in vertex_list[e[1]]}
    ELSE {e \in Vertices \X Vertices : matrix[e[1]][e[2]] > 0}

AddEdgeArgsInBounds ==
    call.op = "add_edge" /\ InBounds(call.v1) /\ InBounds(call.v2)

(* C1: in the adjacency-set graph, after add_edge(v1, v2) with v1, v2 in   *)
(* [0, N), v1 /= v2 and weight 1, the call has succeeded,                  *)
(* get_adjacent_vertices(v1) contains v2 and, in an undirected graph,      *)
(* get_adjacent_vertices(v2) contains v1.                                  *)
SetAddEdgeMakesAdjacent ==
    (kind = "set" /\ AddEdgeArgsInBounds /\ call.v1 /= call.v2 /\ call.weight = 1)
    => /\ err = "none"
       /\ call.v2 \in Range(get_adjacent_vertices(call.v1).ret)
       /\ directed = FALSE => call.v1 \in Range(get_adjacent_vertices(call.v2).ret)

SetAddEdgeMakesAdjacentWitness ==
    /\ kind = "set" /\ directed = FALSE
    /\ AddEdgeArgsInBounds /\ err = "none"
    /\ Cardinality(vertex_list[call.v2]) = 2
    /\ call.v1 \in vertex_list[call.v2]

(* C2: in the adjacency-matrix graph, after add_edge(v1, v2, weight) with  *)
(* v1, v2 in [0, N) (equal or not) and weight >= 1, the call has           *)
(* succeeded, get_edge_weight(v1, v2) is weight whatever the cell held     *)
(* before and, in an undirected graph, get_edge_weight(v2, v1) is weight.  *)
MatrixAddEdgeSetsWeight ==
    (kind = "matrix" /\ AddEdgeArgsInBounds /\ call.weight >= 1)
    => /\ err = "none"
       /\ get_edge_weight(call.v1, call.v2).ret = call.weight
       /\ directed = FALSE => get_edge_weight(call.v2, call.v1).ret = call.weight

MatrixAddEdgeSetsWeightWitness ==
    /\ kind = "matrix" /\ directed = FALSE /\ pc = "api"
    /\ AddEdgeArgsInBounds /\ err = "none"
    /\ call.v1 = call.v2 /\ call.weight = MaxWeight
    /\ matrix[call.v1][call.v1] = MaxWeight
    /\ Cardinality(StoredEdges) = 3

(* What makes a call of add_edge valid for the object's class. *)
AddEdgeArgsValid(c) ==
    /\ c.op = "add_edge" /\ InBounds(c.v1) /\ InBounds(c.v2)
    /\ kind = "set" => (c.weight = 1 /\ c.v1 /= c.v2)
    /\ kind = "matrix" => c.weight >= 1

(* C3: a call of add_edge that fails leaves every adjacency set, every     *)
(* matrix cell, the vertex count and the directedness as they were; and    *)
(* in every state, also after failed calls, a valid add_edge and a query   *)
(* of a vertex in [0, N) succeed.                                          *)
FailedAddEdgeChangesNothing ==
    [][/\ (call'.op = "add_edge" /\ err' /= "none")
          => UNCHANGED <<vertex_list, matrix, nbvertices, directed, kind>>
       /\ AddEdgeArgsValid(call') => err' = "none"
       /\ (call'.op \in {"get_adjacent_vertices", "get_indegree"} /\ InBounds(call'.v))
          => err' = "none"]_vars

FailedAddEdgeChangesNothingWitness ==
    /\ kind = "set" /\ directed = FALSE
    /\ call.op = "add_edge" /\ err = "SelfLoopError"
    /\ ncalls = 2
    /\ vertex_list[call.v1] /= {}

(* C4: add_edge ends in OutOfBounds exactly when v1 or v2 is outside       *)
(* [0, N), whatever the weight; get_adjacent_vertices and get_indegree     *)
(* end in OutOfBounds exactly when v is outside [0, N).                    *)
OutOfBoundsExactly ==
    /\ call.op = "add_edge"
       => (err = "OutOfBounds" <=> ~(InBounds(call.v1) /\ InBounds(call.v2)))
    /\ call.op \in {"get_adjacent_vertices", "get_indegree"}
       => (err = "OutOfBounds" <=> ~InBounds(call.v))

OutOfBoundsExactlyWitness ==
    /\ kind = "matrix"
    /\ call.op = "add_edge" /\ err = "OutOfBounds"
    /\ call.v1 = nbvertices /\ call.v2 = 0 /\ call.weight = 0

(* C5: in the adjacency-set graph, add_edge(v, v) with v in [0, N) and     *)
(* weight 1 ends in SelfLoopError, directed or not, and no node's          *)
(* adjacency set ever contains the node's own identifier.                  *)
SetNeverHoldsSelfLoop ==
    kind = "set"
    => /\ (AddEdgeArgsInBounds /\ call.v1 = call.v2 /\ call.weight = 1)
          => err = "SelfLoopError"
       /\ \A i \in Vertices : i \notin vertex_list[i]

SetNeverHoldsSelfLoopWitness ==
    /\ kind = "set" /\ directed = TRUE
    /\ AddEdgeArgsInBounds /\ call.v1 = call.v2 /\ call.weight = 1
    /\ err = "SelfLoopError"
    /\ vertex_list[call.v1] /= {}

(* C6: with both vertices in [0, N), add_edge ends in WeightNotSupported   *)
(* exactly when the weight is not 1 (adjacency-set graph) or is below 1    *)
(* (adjacency-matrix graph).                                               *)
WeightNotSupportedExactly ==
    AddEdgeArgsInBounds
    => (err = "WeightNotSupported"
        <=> \/ kind = "set" /\ call.weight /= 1
            \/ kind = "matrix" /\ call.weight < 1)

WeightNotSupportedExactlyWitness ==
    /\ kind = "set"
    /\ AddEdgeArgsInBounds /\ call.v1 = call.v2 /\ call.weight = 0
    /\ err = "WeightNotSupported"

(* C7: for every v in [0, N), get_indegree(v) is the number of vertices u  *)
(* of [0, N), u = v included, with v in get_adjacent_vertices(u).          *)
IndegreeCountsSources ==
    /\ \A v \in Vertices :
          get_indegree(v).ret
          = Cardinality({u \in Vertices : v \in Range(get_adjacent_vertices(u).ret)})
    /\ (call.op = "get_indegree" /\ InBounds(call.v))
       => ret = Cardinality({u \in Vertices :
                               call.v \in Range(get_adjacent_vertices(u).ret)})

IndegreeCountsSourcesWitness ==
    /\ kind = "matrix" /\ directed = TRUE
    /\ call.op = "get_indegree" /\ err = "none" /\ ret = 2
    /\ matrix[call.v][call.v] > 0
    /\ get_adjacent_vertices(call.v).ret = <<call.v>>

(* C8: after a successful add_edge(v1, v2, w), the same call made again    *)
(* succeeds and leaves every adjacency set and every matrix cell as the    *)
(* first call left it.                                                     *)
AddEdgeIdempotent ==
    (call.op = "add_edge" /\ err = "none")
    => LET again == add_edge(call.v1, call.v2, call.weight)
       IN again.err = "none" /\ again.store = store

AddEdgeIdempotentWitness ==
    /\ kind = "matrix" /\ directed = FALSE /\ pc = "api"
    /\ call.op = "add_edge" /\ err = "none"
    /\ call.weight = MaxWeight /\ call.v1 /= call.v2
    /\ Cardinality(StoredEdges) = 3

(* Lines in ascending (source, destination) order. *)
LineBefore(a, b) == a[1] < b[1] \/ (a[1] = b[1] /\ a[3] < b[3])

(* C9: display() emits one line source-->destination for every directed    *)
(* edge stored and no other line, in strictly ascending (source,           *)
(* destination) order; the graph of main() gives 0-->1, 0-->2, 2-->3.      *)
DisplayListsEdgesInOrder ==
    call.op = "display"
    => /\ err = "none"
       /\ Len(ret) = Cardinality(StoredEdges)
       /\ Range(ret) = {Line(e[1], e[2]) : e \in StoredEdges}
       /\ \A k \in 1 .. (Len(ret) - 1) : LineBefore(ret[k], ret[k + 1])
       /\ pc = "done" => ret = <<Line(0, 1), Line(0, 2), Line(2, 3)>>

DisplayListsEdgesInOrderWitness ==
    /\ kind = "set" /\ pc = "api"
    /\ call.op = "display"
    /\ Len(ret) = 2
    /\ ret[1][1] = ret[2][1]

(* C10: an adjacency-set graph and an adjacency-matrix graph of the same   *)
(* vertex count and directedness, given the same calls add_edge(v1, v2)    *)
(* with weight 1 and v1 /= v2, agree on the outcome of every call and,     *)
(* after each of them, on get_adjacent_vertices(v) and get_indegree(v) for *)
(* every v in [0, N) and on display().                                     *)
RepresentationsAgree ==
    /\ err.set = err.matrix
    /\ ret.set = ret.matrix
    /\ \A v \in Vertices :
          /\ AdjacencySetGraph_get_adjacent_vertices(vertex_list, v)
             = AdjacencyMatrixGraph_get_adjacent_vertices(matrix, v)
          /\ AdjacencySetGraph_get_indegree(vertex_list, v)
             = AdjacencyMatrixGraph_get_indegree(matrix, v)
    /\ AdjacencySetGraph_display(vertex_list) = AdjacencyMatrixGraph_display(matrix)

RepresentationsAgreeWitness ==
    /\ kind = "pair" /\ directed = TRUE
    /\ call.op = "get_adjacent_vertices" /\ err.set = "none"
    /\ Len(ret.set) = 2
    /\ ncalls = 2

====
